---- MODULE Spec2Model ----
(***************************************************************************)
(* Model of the video controller of smart-youtube-backend                  *)
(* (src/unnamed/part_000): extractVideoId, transcribeAudio, getTranscript  *)
(* and the processVideo handler.                                           *)
(*                                                                         *)
(* Text is a sequence of one-character strings where it is parsed (URLs,   *)
(* identifiers) and a sequence of chunks where it is only concatenated     *)
(* (transcripts); "" is the empty sequence.                                *)
(***************************************************************************)
EXTENDS Naturals, Sequences, FiniteSets

VARIABLES call, files, store, req, resp

vars == <<call, files, store, req, resp>>

(***************************************************************************)
(* Bounds of the model.                                                    *)
(***************************************************************************)
\* longest item, event or segment list a collaborator hands back
MaxSegs == 2

\* the callers: two requests in flight at once, the least number that
\* interleaves on one temporary path
Calls == {"A", "B"}

(***************************************************************************)
(* Strings.                                                                *)
(***************************************************************************)
\* [a-zA-Z0-9_-], the character class of the four patterns
IdChar ==
  {"a", "b", "c", "d", "e", "f", "g", "h", "i", "j", "k", "l", "m", "n", "o",
   "p", "q", "r", "s", "t", "u", "v", "w", "x", "y", "z", "A", "B", "C", "D",
   "E", "F", "G", "H", "I", "J", "K", "L", "M", "N", "O", "P", "Q", "R", "S",
   "T", "U", "V", "W", "X", "Y", "Z", "0", "1", "2", "3", "4", "5", "6", "7",
   "8", "9", "_", "-"}

\* {11}, the repetition count of the four patterns
IdLen == 11

\* what String.prototype.trim strips
WhiteSpace == {" ", "\t", "\n", "\r"}

LitV == <<"v", "=">>
LitYoutuBe == <<"y", "o", "u", "t", "u", ".", "b", "e", "/">>
LitEmbed ==
  <<"y", "o", "u", "t", "u", "b", "e", ".", "c", "o", "m", "/",
    "e", "m", "b", "e", "d", "/">>

Min(S) == CHOOSE x \in S : \A y \in S : x <= y

RECURSIVE TrimStart(_)
TrimStart(s) ==
  IF s # <<>> /\ Head(s) \in WhiteSpace THEN TrimStart(Tail(s)) ELSE s

RECURSIVE TrimEnd(_)
TrimEnd(s) ==
  IF s # <<>> /\ s[Len(s)] \in WhiteSpace
    THEN TrimEnd(SubSeq(s, 1, Len(s) - 1))
    ELSE s

\* a trim of the leading whitespace only
TrimLeading(s) == TrimStart(s)

\* url.trim()
Trim(s) == TrimEnd(TrimStart(s))

\* the literal lit stands in s at position i
LitAt(s, i, lit) ==
  /\ i + Len(lit) - 1 <= Len(s)
  /\ SubSeq(s, i, i + Len(lit) - 1) = lit

\* ([a-zA-Z0-9_-]{11}) matches in s at position i
IdAt(s, i) ==
  /\ i + IdLen - 1 <= Len(s)
  /\ \A k \in i..(i + IdLen - 1) : s[k] \in IdChar

\* the capture group of the leftmost match of <lit>([a-zA-Z0-9_-]{11}), where
\* lit is one of the literals in Lits; <<>> stands for "no match" (null)
Capture(s, Lits) ==
  LET At(i) == {l \in Lits : LitAt(s, i, l) /\ IdAt(s, i + Len(l))}
      I == {i \in 1..Len(s) : At(i) # {}}
  IN IF I = {} THEN <<>>
     ELSE LET i == Min(I)
              l == CHOOSE l \in At(i) : TRUE
          IN SubSeq(s, i + Len(l), i + Len(l) + IdLen - 1)

\* null
Null == [type |-> "null"]
\* a string value
Str(s) == [type |-> "string", chars |-> s]

\* extractVideoId with a fourth pattern that lacks ^ and $
extractVideoIdUnanchored(input) ==
  LET url == Trim(input)
      m == Capture(url, {<<"?">> \o LitV, <<"&">> \o LitV, LitYoutuBe,
                         LitEmbed, <<>>})
  IN IF m # <<>> THEN Str(m) ELSE Null

\* extractVideoId: the four patterns in order, first match wins
extractVideoId(input) ==
  LET url == Trim(input)
      m1 == Capture(url, {<<"?">> \o LitV, <<"&">> \o LitV})
      m2 == Capture(url, {LitYoutuBe})
      m3 == Capture(url, {LitEmbed})
  IN IF m1 # <<>> THEN Str(m1)
     ELSE IF m2 # <<>> THEN Str(m2)
     ELSE IF m3 # <<>> THEN Str(m3)
     ELSE IF Len(url) = IdLen /\ IdAt(url, 1) THEN Str(url)
     ELSE Null

(***************************************************************************)
(* Values handed back by the collaborators.                                *)
(***************************************************************************)
\* undefined (a missing field)
Undefined == [type |-> "undefined"]
\* an array
List(items) == [type |-> "list", items |-> items]

IdRick == <<"d", "Q", "w", "4", "w", "9", "W", "g", "X", "c", "Q">>
IdTest == <<"x", "7", "X", "9", "w", "_", "G", "I", "m", "1", "s">>
VideoIds == {IdRick, IdTest}

\* the text of one caption item or transcribed segment
SegTexts == {<<>>, <<"Hello">>, <<"world">>}

SeqsUpTo(S, n) == UNION {[1..m -> S] : m \in 0..n}

\* YoutubeTranscript.fetchTranscript: throws, or resolves to null or an array
\* of items {text, ...}
LibOutcomes ==
  {[threw |-> TRUE, message |-> "fetchTranscript failed", value |-> Null]}
  \cup {[threw |-> FALSE, message |-> "", value |-> v] :
          v \in {Null} \cup {List(l) : l \in SeqsUpTo([text : SegTexts], MaxSegs)}}

\* the stdout of fetch_transcript.py as JSON.parse sees it
PyStdouts ==
  {[json |-> FALSE]}
  \cup {[json |-> TRUE, success |-> FALSE, error |-> "script error",
         transcript |-> Undefined]}
  \cup {[json |-> TRUE, success |-> TRUE, error |-> "", transcript |-> t] :
          t \in {Undefined, Str(<<>>), Str(<<"Hello", " ", "world">>)}}

\* exec of a python interpreter: an error (nonzero exit, spawn failure), or
\* exit 0 with a stdout
PyOutcomes ==
  {[error |-> TRUE, message |-> m, stdout |-> [json |-> FALSE]] :
     m \in {"spawn failed", "exit 1"}}
  \cup {[error |-> FALSE, message |-> "", stdout |-> o] : o \in PyStdouts}

\* axios.get of the watch page: throws, or a page with or without a
\* "baseUrl":"https://www.youtube.com/api/timedtext..." caption track
PageOutcomes ==
  {[threw |-> TRUE, message |-> "page fetch failed", captionTrack |-> FALSE]}
  \cup {[threw |-> FALSE, message |-> "", captionTrack |-> b] : b \in BOOLEAN}

\* one json3 event: with segs (each seg a utf8 text) or without
Events ==
  {[segs |-> Undefined],
   [segs |-> List(<<[utf8 |-> <<"Hello">>]>>)],
   [segs |-> List(<<[utf8 |-> <<"wor">>], [utf8 |-> <<"ld">>]>>)]}

\* axios.get of the caption url: throws, or a payload without data, without
\* events, or with an array of events
CaptionOutcomes ==
  {[threw |-> TRUE, message |-> "caption fetch failed", data |-> Null]}
  \cup {[threw |-> FALSE, message |-> "", data |-> d] :
          d \in {Null, [events |-> Undefined]}
                \cup {[events |-> List(l)] : l \in SeqsUpTo(Events, MaxSegs)}}

\* exec of yt-dlp: an error (nonzero exit) or exit 0
DownloadOutcomes ==
  {[error |-> TRUE, message |-> "yt-dlp failed"],
   [error |-> FALSE, message |-> ""]}

\* the stdout of transcribe_audio.py as JSON.parse sees it: not JSON, null,
\* {error: ...}, or an array of segments {text, ...}
WhisperStdouts ==
  {[json |-> FALSE, value |-> Null],
   [json |-> TRUE, value |-> Null],
   [json |-> TRUE, value |-> [type |-> "object", error |-> "whisper error"]]}
  \cup {[json |-> TRUE, value |-> List(l)] :
          l \in SeqsUpTo([text : SegTexts], MaxSegs)}

\* exec of the transcription script: an error (nonzero exit) or exit 0 with
\* a stdout
WhisperOutcomes ==
  {[error |-> TRUE, message |-> "whisper failed",
    stdout |-> [json |-> FALSE, value |-> Null]]}
  \cup {[error |-> FALSE, message |-> "", stdout |-> o] : o \in WhisperStdouts}

(***************************************************************************)
(* Array.prototype.join; l.map(f) is written [i \in 1..Len(l) |-> f(l[i])]. *)
(***************************************************************************)
\* parts.join(sep)
RECURSIVE Join(_, _)
Join(parts, sep) ==
  IF parts = <<>> THEN <<>>
  ELSE IF Len(parts) = 1 THEN parts[1]
  ELSE parts[1] \o sep \o Join(Tail(parts), sep)

Space == <<" ">>

(***************************************************************************)
(* One getTranscript call.  call[c] is the frame of call c:                *)
(*   pc         where the call is suspended (the await or exec callback it *)
(*              waits for), "idle" before the call, "returned" or "threw"  *)
(*              after it                                                   *)
(*   videoId    the argument                                               *)
(*   primary    the error of the venv interpreter, kept by the closure     *)
(*   ta         the promise of transcribeAudio: none, pending, resolved,   *)
(*              rejected                                                   *)
(*   result     what the call returned or threw                            *)
(* and, recorded for the properties (what stubbed collaborators would      *)
(* count and log):                                                         *)
(*   started    the collaborators invoked so far, in order                 *)
(*   outcome    per method: none, ok, fail                                 *)
(*   logged     the error message the step taken last caught and logged,   *)
(*              "" when it caught none                                     *)
(*   emitted    the collaborator's value the returned text was made from   *)
(*   stale      transcribeAudio, while it runs: it found a file at its     *)
(*              path and unlinked it                                       *)
(* files is the set of identifiers whose temp_<id>.mp3 exists.             *)
(***************************************************************************)
Methods == 1..4

NoResult == [kind |-> "none", value |-> <<>>, message |-> ""]

IdleCall ==
  [pc |-> "idle", videoId |-> <<>>, primary |-> "", ta |-> "none",
   result |-> NoResult, started |-> <<>>,
   outcome |-> [m \in Methods |-> "none"], logged |-> "", emitted |-> Null,
   stale |-> FALSE]

\* the message of the aggregated error
NoSourceMessage == "Could not fetch transcript from any source"

\* return fullText / return transcript, from method m
Return(k, m, text) ==
  [k EXCEPT !.pc = "returned", !.outcome[m] = "ok",
            !.result = [kind |-> "return", value |-> text, message |-> ""]]

\* the catch block of method m: log the message, fall through
Caught(k, m, msg) == [k EXCEPT !.outcome[m] = "fail", !.logged = msg]

\* method m ends without a result and without an exception
Fell(k, m) == [k EXCEPT !.outcome[m] = "fail"]

\* the frame as a step finds it: nothing logged yet
Resumed(k) == [k EXCEPT !.logged = ""]

\* Throw rethrowing the error caught last
ThrowLastCause(k) ==
  [k EXCEPT !.pc = "threw",
            !.result = [kind |-> "throw", value |-> <<>>,
                        message |-> k.logged]]

\* throw new Error('Could not fetch transcript from any source')
Throw(k) ==
  [k EXCEPT !.pc = "threw",
            !.result = [kind |-> "throw", value |-> <<>>,
                        message |-> NoSourceMessage]]

\* method 2 up to its exec of the venv interpreter
StartMethod2(k) ==
  [k EXCEPT !.pc = "m2_venv", !.started = Append(@, "venv python")]

\* the venv interpreter failed and its callback returns without starting
\* the global python3 and without settling the promise
StartGlobalPythonDropped(k, msg) ==
  [k EXCEPT !.pc = "m2_unsettled", !.primary = msg]

\* the venv interpreter failed: exec of the global python3
StartGlobalPython(k, msg) ==
  [k EXCEPT !.pc = "m2_global", !.primary = msg,
            !.started = Append(@, "python3")]

\* method 3 up to its first axios.get; the closure of method 2 is gone
StartMethod3(k) ==
  [k EXCEPT !.pc = "m3_page", !.primary = "",
            !.started = Append(@, "page fetch")]

\* method 3, the second axios.get
StartCaptionFetch(k) ==
  [k EXCEPT !.pc = "m3_caption", !.started = Append(@, "caption fetch")]

\* transcribeAudio that starts the download tool over whatever is at its
\* path
transcribeAudioKeepsStale(k, fs) ==
  [k |-> [k EXCEPT !.pc = "m4_download", !.ta = "pending",
                   !.started = Append(@, "yt-dlp"),
                   !.stale = k.videoId \in fs],
   fs |-> fs]

\* method 4 up to the exec of yt-dlp in transcribeAudio: the stale file is
\* unlinked, the download tool started
transcribeAudio(k, fs) ==
  [k |-> [k EXCEPT !.pc = "m4_download", !.ta = "pending",
                   !.started = Append(@, "yt-dlp"),
                   !.stale = k.videoId \in fs],
   fs |-> fs \ {k.videoId}]

\* exec of the transcription script
StartWhisper(k) ==
  [k EXCEPT !.pc = "m4_whisper", !.started = Append(@, "whisper")]

\* a test of transcriptItems alone: an empty array is truthy
HasItemsTruthy(v) == v.type = "list"

\* transcriptItems && transcriptItems.length > 0
HasItems(v) == v.type = "list" /\ Len(v.items) > 0

\* transcriptItems.map(item => item.text).join(' ')
ItemsText(items) == Join([i \in 1..Len(items) |-> items[i].text], Space)

\* getTranscript(videoId), up to the await of the library fetch
getTranscript(c, id) ==
  /\ call[c].pc = "idle"
  /\ call' = [call EXCEPT ![c] =
                [IdleCall EXCEPT !.pc = "m1", !.videoId = id,
                                 !.started = <<"fetchTranscript">>]]
  /\ UNCHANGED <<files, store, req, resp>>

\* Method1Settles without the return: a non-empty item list is recorded and
\* the chain goes on
Method1SettlesFallsThrough(k, out) ==
  IF out.threw THEN StartMethod2(Caught(k, 1, out.message))
  ELSE IF HasItems(out.value)
    THEN StartMethod2([k EXCEPT !.outcome[1] = "ok", !.emitted = out.value])
    ELSE StartMethod2(Fell(k, 1))

\* Method1Settles whose catch block goes on with method 3
Method1SettlesSkipsScript(k, out) ==
  IF out.threw THEN StartMethod3(Caught(k, 1, out.message))
  ELSE IF HasItems(out.value)
    THEN Return([k EXCEPT !.emitted = out.value], 1, ItemsText(out.value.items))
    ELSE StartMethod2(Fell(k, 1))

\* method 1: the library fetch settles
Method1Settles(k, out) ==
  IF out.threw THEN StartMethod2(Caught(k, 1, out.message))
  ELSE IF HasItems(out.value)
    THEN Return([k EXCEPT !.emitted = out.value], 1, ItemsText(out.value.items))
    ELSE StartMethod2(Fell(k, 1))

fetchTranscriptSettles(c, out) ==
  /\ call[c].pc = "m1"
  /\ call' = [call EXCEPT ![c] = Method1Settles(Resumed(@), out)]
  /\ UNCHANGED <<files, store, req, resp>>

\* what the promise of method 2 settles to, given a parsed stdout:
\* resolve(result.transcript), reject(new Error(result.error)), reject(e)
ScriptResult(stdout) ==
  IF ~stdout.json THEN [ok |-> FALSE, message |-> "SyntaxError", value |-> Undefined]
  ELSE IF stdout.success
    THEN [ok |-> TRUE, message |-> "", value |-> stdout.transcript]
    ELSE [ok |-> FALSE, message |-> stdout.error, value |-> Undefined]

\* method 2 after its promise settled: transcript.length is read for the
\* log line, which throws on a missing transcript; then return transcript
Method2Settles(k, r) ==
  IF ~r.ok THEN StartMethod3(Caught(k, 2, r.message))
  ELSE IF r.value.type # "string"
    THEN StartMethod3(Caught(k, 2, "TypeError"))
    ELSE Return([k EXCEPT !.emitted = r.value], 2, r.value.chars)

\* the callback of the venv interpreter's exec
venvPythonCallback(c, out) ==
  /\ call[c].pc = "m2_venv"
  /\ call' = [call EXCEPT ![c] =
                IF out.error THEN StartGlobalPython(Resumed(@), out.message)
                ELSE Method2Settles(Resumed(@), ScriptResult(out.stdout))]
  /\ UNCHANGED <<files, store, req, resp>>

\* GlobalPythonSettles rejecting with the error of python3 itself
GlobalPythonSettlesOwnError(k, out) ==
  IF out.error
    THEN StartMethod3(Caught(k, 2, out.message))
    ELSE Method2Settles(k, ScriptResult(out.stdout))

\* the inner callback: reject(error) is the venv interpreter's error
GlobalPythonSettles(k, out) ==
  IF out.error
    THEN StartMethod3(Caught(k, 2, k.primary))
    ELSE Method2Settles(k, ScriptResult(out.stdout))

\* the callback of the global python3's exec
globalPythonCallback(c, out) ==
  /\ call[c].pc = "m2_global"
  /\ call' = [call EXCEPT ![c] = GlobalPythonSettles(Resumed(@), out)]
  /\ UNCHANGED <<files, store, req, resp>>

\* captionResponse.data && captionResponse.data.events
HasEvents(data) == data # Null /\ data.events # Undefined

\* events.map(e => (e.segs ? e.segs.map(s => s.utf8).join('') : '')).join(' ')
EventsText(events) ==
  Join([i \in 1..Len(events) |->
          IF events[i].segs # Undefined
            THEN Join([j \in 1..Len(events[i].segs.items) |->
                         events[i].segs.items[j].utf8], <<>>)
            ELSE <<>>],
       Space)

\* method 3: the fetch of the watch page settles
PageFetchSettles(k, fs, out) ==
  IF out.threw THEN transcribeAudio(Caught(k, 3, out.message), fs)
  ELSE IF out.captionTrack THEN [k |-> StartCaptionFetch(k), fs |-> fs]
  ELSE transcribeAudio(Fell(k, 3), fs)

pageFetchSettles(c, out) ==
  /\ call[c].pc = "m3_page"
  /\ LET n == PageFetchSettles(Resumed(call[c]), files, out)
     IN /\ call' = [call EXCEPT ![c] = n.k]
        /\ files' = n.fs
  /\ UNCHANGED <<store, req, resp>>

\* method 3: the fetch of the caption url settles
CaptionFetchSettles(k, fs, out) ==
  IF out.threw THEN transcribeAudio(Caught(k, 3, out.message), fs)
  ELSE IF HasEvents(out.data)
    THEN [k |-> Return([k EXCEPT !.emitted = out.data.events], 3,
                       EventsText(out.data.events.items)),
          fs |-> fs]
    ELSE transcribeAudio(Fell(k, 3), fs)

captionFetchSettles(c, out) ==
  /\ call[c].pc = "m3_caption"
  /\ LET n == CaptionFetchSettles(Resumed(call[c]), files, out)
     IN /\ call' = [call EXCEPT ![c] = n.k]
        /\ files' = n.fs
  /\ UNCHANGED <<store, req, resp>>

\* the download tool, while it runs, writes temp_<id>.mp3
ytDlpWritesFile(c) ==
  /\ call[c].pc = "m4_download"
  /\ call[c].videoId \notin files
  /\ files' = files \cup {call[c].videoId}
  /\ UNCHANGED <<call, store, req, resp>>

\* AudioRejected with a catch block that rethrows what it caught
AudioRejectedRethrown(k, msg) ==
  ThrowLastCause(Caught([k EXCEPT !.ta = "rejected", !.stale = FALSE], 4, msg))

\* transcribeAudio rejects; getTranscript catches, logs and throws the
\* aggregated error
AudioRejected(k, msg) ==
  Throw(Caught([k EXCEPT !.ta = "rejected", !.stale = FALSE], 4, msg))

\* transcribeAudio resolves; getTranscript returns the text
AudioResolved(k, text) ==
  Return([k EXCEPT !.ta = "resolved", !.stale = FALSE], 4, text)

\* Unlink that deletes nothing
UnlinkSkipped(fs, id) == fs

\* Unlink that removes every temporary file
UnlinkAll(fs, id) == {}

\* if (fs.existsSync(expectedAudioFile)) fs.unlinkSync(expectedAudioFile)
Unlink(fs, id) == fs \ {id}

\* DownloadSettles without the check that the file was created
DownloadSettlesUnchecked(k, fs, out) ==
  IF out.error
    THEN [k |-> AudioRejected(k, out.message), fs |-> Unlink(fs, k.videoId)]
  ELSE [k |-> StartWhisper(k), fs |-> fs]

\* DownloadSettles that removes the file before the script is started
DownloadSettlesDeletes(k, fs, out) ==
  IF out.error
    THEN [k |-> AudioRejected(k, out.message), fs |-> Unlink(fs, k.videoId)]
  ELSE IF k.videoId \notin fs
    THEN [k |-> AudioRejected(k, "Audio file not created after yt-dlp run"),
          fs |-> Unlink(fs, k.videoId)]
  ELSE [k |-> StartWhisper(k), fs |-> Unlink(fs, k.videoId)]

\* the callback of yt-dlp's exec and what follows it in transcribeAudio:
\* the missing-file check, the catch block, the exec of the script
DownloadSettles(k, fs, out) ==
  IF out.error
    THEN [k |-> AudioRejected(k, out.message), fs |-> Unlink(fs, k.videoId)]
  ELSE IF k.videoId \notin fs
    THEN [k |-> AudioRejected(k, "Audio file not created after yt-dlp run"),
          fs |-> Unlink(fs, k.videoId)]
  ELSE [k |-> StartWhisper(k), fs |-> fs]

ytDlpCallback(c, out) ==
  /\ call[c].pc = "m4_download"
  /\ LET n == DownloadSettles(Resumed(call[c]), files, out)
     IN /\ call' = [call EXCEPT ![c] = n.k]
        /\ files' = n.fs
  /\ UNCHANGED <<store, req, resp>>

\* SegmentsText joining without a separator
SegmentsTextUnseparated(segments) ==
  Join([i \in 1..Len(segments) |-> segments[i].text], <<>>)

\* segments.map(s => s.text).join(' ')
SegmentsText(segments) ==
  Join([i \in 1..Len(segments) |-> segments[i].text], Space)

\* the callback of the script's exec, after the unlink: reject(error),
\* reject(parseError), reject(new Error(segments.error)) or resolve(fullText)
TranscriptionSettles(k, out) ==
  LET k2 == [k EXCEPT !.emitted = out.stdout.value]
  IN IF out.error THEN AudioRejected(k, out.message)
     ELSE IF ~out.stdout.json THEN AudioRejected(k, "SyntaxError")
     ELSE IF out.stdout.value = Null THEN AudioRejected(k, "TypeError")
     ELSE IF out.stdout.value.type = "object"
       THEN AudioRejected(k, out.stdout.value.error)
     ELSE AudioResolved(k2, SegmentsText(out.stdout.value.items))

whisperCallback(c, out) ==
  /\ call[c].pc = "m4_whisper"
  /\ call' = [call EXCEPT ![c] = TranscriptionSettles(Resumed(@), out)]
  /\ files' = Unlink(files, call[c].videoId)
  /\ UNCHANGED <<store, req, resp>>

(***************************************************************************)
(* The processVideo handler.  req[c] is request c as the handler sees it   *)
(* (its body's youtubeUrl, the identifier extracted from it), resp[c] the  *)
(* responses it was sent, in order, and store the documents of the Video   *)
(* collection.                                                             *)
(***************************************************************************)
WatchPrefix ==
  <<"h", "t", "t", "p", "s", ":", "/", "/", "w", "w", "w", ".", "y", "o", "u",
    "t", "u", "b", "e", ".", "c", "o", "m", "/", "w", "a", "t", "c", "h", "?",
    "v", "=">>
ShortPrefix ==
  <<"h", "t", "t", "p", "s", ":", "/", "/", "y", "o", "u", "t", "u", ".", "b",
    "e", "/">>
NotAUrl == <<"n", "o", "t", " ", "a", " ", "u", "r", "l">>

\* req.body.youtubeUrl: missing, the empty string, a number, or a string
Bodies ==
  {Undefined, Str(<<>>), [type |-> "number"], Str(NotAUrl)}
  \cup {Str(u) : u \in UNION {{WatchPrefix \o id, ShortPrefix \o id, id} :
                                 id \in VideoIds}}

NoRequest ==
  [state |-> "none", youtubeUrl |-> Undefined, videoId |-> Null,
   transcript |-> <<>>, summary |-> <<>>, title |-> Undefined]

\* the flag cleared
DemoModeOff == FALSE

\* const DEMO_MODE = true
DEMO_MODE == TRUE

DemoTranscript == <<"This is a demonstration transcript about Python">>
DemoSummary == <<"This video covers essential Python programming concepts.">>

\* demoContent
DemoContent(youtubeUrl, videoId) ==
  [youtubeUrl |-> youtubeUrl, videoId |-> videoId,
   transcript |-> DemoTranscript, summary |-> DemoSummary]

\* a document saved by an earlier processVideo request
StoredDoc(id) ==
  [youtubeUrl |-> WatchPrefix \o id, videoId |-> id,
   transcript |-> <<"Hello", " ", "world">>, summary |-> <<"a summary">>,
   oid |-> "earlier"]

\* Video.findOne({ videoId })
FindOne(docs, id) ==
  IF \E d \in docs : d.videoId = id
    THEN CHOOSE d \in docs : d.videoId = id
    ELSE Null

\* a check that lets the empty string through
FalsyMissingOnly(v) == v = Undefined \/ v = Null

\* !youtubeUrl
Falsy(v) == v = Undefined \/ v = Null \/ v = Str(<<>>)

\* res.status(n).json(body) / res.json(body)
Reply(status, body) == [status |-> status, body |-> body]

\* processVideo from its entry to its first response or await: the two
\* input checks, the demo branch, and extractVideoId throwing on a
\* youtubeUrl that has no trim (caught by the outer handler)
ProcessVideoEntryWith(body, demo) ==
  IF Falsy(body)
    THEN [state |-> "done", videoId |-> Null,
          reply |-> <<Reply(400, [error |-> "YouTube URL is required"])>>]
  ELSE IF body.type # "string"
    THEN [state |-> "done", videoId |-> Null,
          reply |-> <<Reply(500, [error |-> "TypeError"])>>]
  ELSE LET videoId == extractVideoId(body.chars)
       IN IF videoId = Null
            THEN [state |-> "done", videoId |-> Null,
                  reply |-> <<Reply(400, [error |-> "Invalid YouTube URL"])>>]
          ELSE IF demo
            THEN [state |-> "done", videoId |-> videoId,
                  reply |-> <<Reply(200, DemoContent(body.chars, videoId.chars))>>]
          ELSE [state |-> "cacheCheck", videoId |-> videoId, reply |-> <<>>]

processVideoWith(c, body, demo) ==
  /\ req[c].state = "none"
  /\ LET n == ProcessVideoEntryWith(body, demo)
     IN /\ req' = [req EXCEPT ![c] = [@ EXCEPT !.state = n.state,
                                               !.youtubeUrl = body,
                                               !.videoId = n.videoId]]
        /\ resp' = [resp EXCEPT ![c] = @ \o n.reply]
  /\ UNCHANGED <<call, files, store>>

processVideo(c, body) == processVideoWith(c, body, DEMO_MODE)

(***************************************************************************)
(* The getTranscript calls alone, as a caller with stubbed collaborators   *)
(* drives them.  A temp file may be left by an earlier run of the server   *)
(* that was stopped during a transcription ("potential previous            *)
(* attempts").                                                             *)
(***************************************************************************)
Init ==
  /\ call = [c \in Calls |-> IdleCall]
  /\ files \in SUBSET VideoIds
  /\ store = {}
  /\ req = [c \in Calls |-> NoRequest]
  /\ resp = [c \in Calls |-> <<>>]

Next ==
  \E c \in Calls :
    \/ \E id \in VideoIds : getTranscript(c, id)
    \/ \E out \in LibOutcomes : fetchTranscriptSettles(c, out)
    \/ \E out \in PyOutcomes : venvPythonCallback(c, out)
    \/ \E out \in PyOutcomes : globalPythonCallback(c, out)
    \/ \E out \in PageOutcomes : pageFetchSettles(c, out)
    \/ \E out \in CaptionOutcomes : captionFetchSettles(c, out)
    \/ ytDlpWritesFile(c)
    \/ \E out \in DownloadOutcomes : ytDlpCallback(c, out)
    \/ \E out \in WhisperOutcomes : whisperCallback(c, out)

Spec == Init /\ [][Next]_vars

(***************************************************************************)
(* The server as built: processVideo requests against a store that may     *)
(* hold documents saved earlier.                                           *)
(***************************************************************************)
InitServer ==
  /\ call = [c \in Calls |-> IdleCall]
  /\ files \in SUBSET VideoIds
  /\ store \in SUBSET {StoredDoc(id) : id \in VideoIds}
  /\ req = [c \in Calls |-> NoRequest]
  /\ resp = [c \in Calls |-> <<>>]

NextServer == \E c \in Calls : \E body \in Bodies : processVideo(c, body)

SpecServer == InitServer /\ [][NextServer]_vars

(***************************************************************************)
(* Properties of getTranscript.                                            *)
(***************************************************************************)
Range(f) == {f[i] : i \in DOMAIN f}

\* the method a collaborator belongs to
MethodOf(collab) ==
  CASE collab = "fetchTranscript" -> 1
    [] collab \in {"venv python", "python3"} -> 2
    [] collab \in {"page fetch", "caption fetch"} -> 3
    [] collab \in {"yt-dlp", "whisper"} -> 4

\* the collaborator a method starts with
EntryOf(m) ==
  CASE m = 1 -> "fetchTranscript"
    [] m = 2 -> "venv python"
    [] m = 3 -> "page fetch"
    [] m = 4 -> "yt-dlp"

Ended(c) == call[c].pc \in {"returned", "threw"}

\* C1: once method i of a call has succeeded, no collaborator of a method
\* j > i has been or is ever started in that call; after a non-empty item
\* list from method 1 the library fetch is the call's only invocation.
C1_ShortCircuit ==
  \A c \in Calls :
    /\ \A i \in Methods :
         call[c].outcome[i] = "ok" =>
           \A n \in 1..Len(call[c].started) : MethodOf(call[c].started[n]) <= i
    /\ call[c].outcome[1] = "ok" => call[c].started = <<"fetchTranscript">>

\* one call has returned from method 1 and the other from method 3
C1_Witness ==
  \E c, d \in Calls :
    /\ call[c].pc = "returned" /\ call[c].outcome[1] = "ok"
    /\ call[d].pc = "returned" /\ call[d].outcome[3] = "ok"

\* C2: the methods of a call start in the order 1, 2, 3, 4, method k+1 only
\* once method k has failed, and no collaborator is started twice.
C2_StrictOrder ==
  \A c \in Calls :
    LET st == call[c].started
    IN /\ \A n, m \in 1..Len(st) :
            n < m => /\ MethodOf(st[n]) <= MethodOf(st[m])
                     /\ st[n] # st[m]
       /\ \A k \in Methods :
            (\E n \in 1..Len(st) : MethodOf(st[n]) = k) =>
              /\ \E n \in 1..Len(st) : st[n] = EntryOf(k)
              /\ \A j \in 1..(k - 1) :
                   /\ call[c].outcome[j] = "fail"
                   /\ \E n \in 1..Len(st) : MethodOf(st[n]) = j

\* a call has started all four methods
C2_Witness ==
  \E c \in Calls :
    /\ call[c].pc = "m4_whisper"
    /\ call[c].started =
         <<"fetchTranscript", "venv python", "python3", "page fetch",
           "caption fetch", "yt-dlp", "whisper">>

\* parts separated by single spaces, built from the right
RECURSIVE SpaceSeparated(_)
SpaceSeparated(parts) ==
  IF parts = <<>> THEN <<>>
  ELSE IF Len(parts) = 1 THEN parts[1]
  ELSE SpaceSeparated(SubSeq(parts, 1, Len(parts) - 1)) \o <<" ">>
         \o parts[Len(parts)]

RECURSIVE Concatenated(_)
Concatenated(parts) ==
  IF parts = <<>> THEN <<>> ELSE Head(parts) \o Concatenated(Tail(parts))

\* the transcript method m makes of the value v its collaborator emitted
TranscriptOf(m, v) ==
  CASE m = 1 -> SpaceSeparated([i \in 1..Len(v.items) |-> v.items[i].text])
    [] m = 2 -> v.chars
    [] m = 3 ->
         SpaceSeparated(
           [i \in 1..Len(v.items) |->
              IF v.items[i].segs = Undefined THEN <<>>
              ELSE Concatenated([j \in 1..Len(v.items[i].segs.items) |->
                                   v.items[i].segs.items[j].utf8])])
    [] m = 4 -> SpaceSeparated([i \in 1..Len(v.items) |-> v.items[i].text])

\* C3: a call throws exactly when all four methods failed, and then throws
\* the one aggregated error; otherwise it returns the transcript of the
\* first (and only) method that succeeded.
C3_FailsIffAllFail ==
  \A c \in Calls :
    /\ (call[c].pc = "threw") <=> (\A m \in Methods : call[c].outcome[m] = "fail")
    /\ call[c].pc = "threw" =>
         call[c].result = [kind |-> "throw", value |-> <<>>,
                           message |-> "Could not fetch transcript from any source"]
    /\ call[c].pc = "returned" =>
         \E m \in Methods :
           /\ call[c].outcome[m] = "ok"
           /\ \A j \in Methods : j < m => call[c].outcome[j] = "fail"
           /\ \A j \in Methods : j > m => call[c].outcome[j] = "none"
           /\ call[c].result.kind = "return"
           /\ call[c].result.value = TranscriptOf(m, call[c].emitted)
    /\ Ended(c) <=> call[c].result.kind # "none"

\* one call has thrown and the other returned from method 2
C3_Witness ==
  \E c, d \in Calls :
    /\ call[c].pc = "threw"
    /\ call[d].pc = "returned" /\ call[d].outcome[2] = "ok"

\* C4: every value getTranscript returns is a non-empty text.
C4_NonEmptyReturn ==
  \A c \in Calls :
    call[c].pc = "returned" =>
      /\ call[c].result.kind = "return"
      /\ call[c].result.value # <<>>

(***************************************************************************)
(* Properties of transcribeAudio.                                          *)
(***************************************************************************)
Active(c) == call[c].pc \notin {"idle", "returned", "threw"}

\* no other call on the identifier of call c is in flight
NoOtherActive(c) ==
  \A d \in Calls \ {c} : Active(d) => call[d].videoId # call[c].videoId

Settled(c) == call[c].ta \in {"resolved", "rejected"}

\* C5 as stated: with no other call active on its identifier, the temporary
\* file of a call does not exist once its transcribeAudio has settled, nor
\* once the getTranscript call has ended, by return or by failure.
C5_NoFileAfterAnyCall ==
  \A c \in Calls :
    NoOtherActive(c) /\ (Settled(c) \/ Ended(c)) => call[c].videoId \notin files

\* C5 amended: with no other call active on its identifier, the temporary
\* file of a call does not exist once its transcribeAudio has settled, so
\* none remains after a getTranscript call that reached the audio fallback.
C5_NoFileAfterAudioFallback ==
  \A c \in Calls :
    /\ NoOtherActive(c) /\ Settled(c) => call[c].videoId \notin files
    /\ Ended(c) /\ call[c].outcome[4] # "none" => Settled(c)
    /\ Settled(c) => Ended(c)

\* both calls were on one identifier; one resolved its transcription, the
\* other rejected after a download that left no file
C5_Witness ==
  \E c, d \in Calls :
    /\ c # d /\ call[c].videoId = call[d].videoId
    /\ call[c].ta = "resolved"
    /\ call[d].ta = "rejected"
    /\ call[d].logged = "Audio file not created after yt-dlp run"

\* call c returns from method 4 in this step
ReturnsFromAudio(c) ==
  /\ call[c].pc = "m4_whisper"
  /\ call'[c].pc = "returned"

\* C6: a call that returns from method 4 had methods 1 to 3 fail, returns
\* the segments' texts in emitted order separated by single spaces, and its
\* temporary file does not exist at the moment of the return.
C6_AudioTranscript ==
  [][\A c \in Calls :
       ReturnsFromAudio(c) =>
         /\ \A m \in 1..3 : call'[c].outcome[m] = "fail"
         /\ call'[c].outcome[4] = "ok"
         /\ call'[c].emitted.type = "list"
         /\ call'[c].result.value =
              SpaceSeparated([i \in 1..Len(call'[c].emitted.items) |->
                                call'[c].emitted.items[i].text])
         /\ call'[c].videoId \notin files']_vars

\* a call has returned "Hello world" made of two segments
C6_Witness ==
  \E c \in Calls :
    /\ call[c].pc = "returned" /\ call[c].outcome[4] = "ok"
    /\ call[c].emitted = List(<<[text |-> <<"Hello">>], [text |-> <<"world">>]>>)
    /\ call[c].result.value = <<"Hello", " ", "world">>
    /\ call[c].videoId \notin files

\* C7: transcribeAudio resolves only with a transcript made of at least one
\* segment: an empty segment array, like an error object, makes it reject.
C7_EmptyResultRejects ==
  \A c \in Calls :
    call[c].ta = "resolved" =>
      /\ call[c].emitted.type = "list"
      /\ call[c].emitted.items # <<>>

\* C8: a download that ends with an error, or without the output file,
\* rejects transcribeAudio with that cause in the step that also deletes the
\* file, and the transcription script is not started in that call; the script
\* is started only by the callback of a download that exited 0, with the file
\* in place.
C8_DownloadFailureStops ==
  [][\A c \in Calls :
       LET id == call[c].videoId
       IN /\ \A out \in DownloadOutcomes :
               ytDlpCallback(c, out) =>
                 IF out.error \/ id \notin files
                   THEN /\ call'[c].ta = "rejected"
                        /\ call'[c].logged =
                             (IF out.error THEN out.message
                              ELSE "Audio file not created after yt-dlp run")
                        /\ "whisper" \notin Range(call'[c].started)
                        /\ Ended(c)'
                        /\ id \notin files'
                   ELSE /\ call'[c].pc = "m4_whisper"
                        /\ call'[c].ta = "pending"
                        /\ id \in files'
          /\ "whisper" \in Range(call'[c].started) \ Range(call[c].started) =>
               /\ id \in files
               /\ \E out \in DownloadOutcomes : ~out.error /\ ytDlpCallback(c, out)
          /\ Ended(c) => call'[c].started = call[c].started]_vars

\* one call rejected on a failed download, the other on a missing file, and
\* neither started the transcription script
C8_Witness ==
  \E c, d \in Calls :
    /\ call[c].pc = "threw" /\ call[c].logged = "yt-dlp failed"
    /\ call[d].pc = "threw"
    /\ call[d].logged = "Audio file not created after yt-dlp run"
    /\ "whisper" \notin Range(call[c].started) \cup Range(call[d].started)

(***************************************************************************)
(* Properties of processVideo.                                             *)
(***************************************************************************)
\* request c was handled and its url held an identifier
Identified(c) == req[c].state # "none" /\ req[c].videoId # Null

\* C9: a handled request whose identifier has a document in the store is
\* answered with that document, once, and getTranscript is not invoked for it.
C9_CacheHitServed ==
  \A c \in Calls :
    Identified(c) /\ req[c].state = "done"
      /\ FindOne(store, req[c].videoId.chars) # Null =>
        /\ resp[c] = <<Reply(200, FindOne(store, req[c].videoId.chars))>>
        /\ call[c].pc = "idle"

\* C10: once a request for an identifier has been answered with content
\* (status 200), the store holds a document for that identifier.
C10_CachedForever ==
  \A c \in Calls :
    \A n \in 1..Len(resp[c]) :
      resp[c][n].status = 200 =>
        FindOne(store, resp[c][n].body.videoId) # Null

(***************************************************************************)
(* Properties of processVideo's input checks.                              *)
(***************************************************************************)
\* the request body has no youtubeUrl (absent, null or empty)
NoUrl(body) ==
  body.type \in {"undefined", "null"} \/ (body.type = "string" /\ body.chars = <<>>)

\* ... or one for which extractVideoId returns null
Unidentifiable(body) ==
  \/ NoUrl(body)
  \/ body.type = "string" /\ extractVideoId(body.chars) = Null

\* C11: a request with no youtubeUrl, or with one for which extractVideoId
\* returns null, gets exactly one response, a 400 naming the fault, in the
\* step that receives it: the handler awaits nothing (no cache query, no
\* getTranscript call, no generation) and the store and the files are left
\* as they were.
C11_InvalidInputRejected ==
  [][\A c \in Calls : \A body \in Bodies :
       processVideo(c, body) /\ Unidentifiable(body) =>
         /\ resp'[c] = resp[c] \o
              <<Reply(400, [error |-> IF NoUrl(body)
                                        THEN "YouTube URL is required"
                                        ELSE "Invalid YouTube URL"])>>
         /\ Len(resp'[c]) = 1
         /\ req'[c].state = "done"
         /\ call'[c] = IdleCall
         /\ store' = store /\ files' = files]_vars

\* both kinds of invalid input have been rejected
C11_Witness ==
  \E c, d \in Calls :
    /\ req[c].state = "done" /\ NoUrl(req[c].youtubeUrl)
    /\ req[d].state = "done" /\ req[d].youtubeUrl = Str(NotAUrl)
    /\ resp[c][1].status = 400 /\ resp[d][1].status = 400

(***************************************************************************)
(* The stages of processVideo behind the demo branch (lines 413-465).      *)
(* With DEMO_MODE as line 339 sets it no request reaches them; they are    *)
(* run here by a handler whose demo branch is not taken.  The handler sees *)
(* getTranscript and generateLearningContent as awaited calls that settle. *)
(***************************************************************************)
\* await Video.findOne({ videoId }): answers, or throws (no connection)
CacheOutcomes == {[threw |-> FALSE], [threw |-> TRUE]}

\* a cache check without its own try/catch
CacheReadSettlesUncaught(r, docs, out) ==
  LET cached == FindOne(docs, r.videoId.chars)
  IN IF out.threw
       THEN [state |-> "done",
             reply |-> <<Reply(500, [error |-> "read failed"])>>]
     ELSE IF cached # Null
       THEN [state |-> "done", reply |-> <<Reply(200, cached)>>]
     ELSE [state |-> "transcript", reply |-> <<>>]

\* the cache check: a throwing read leaves cached = null
CacheReadSettles(r, docs, out) ==
  LET cached == IF out.threw THEN Null ELSE FindOne(docs, r.videoId.chars)
  IN IF cached # Null
       THEN [state |-> "done", reply |-> <<Reply(200, cached)>>]
       ELSE [state |-> "transcript", reply |-> <<>>]

cacheReadSettles(c, out) ==
  /\ req[c].state = "cacheCheck"
  /\ LET n == CacheReadSettles(req[c], store, out)
     IN /\ req' = [req EXCEPT ![c].state = n.state]
        /\ resp' = [resp EXCEPT ![c] = @ \o n.reply]
  /\ UNCHANGED <<call, files, store>>

\* what await getTranscript(videoId) yields: a text, or the one error
TranscriptOutcomes ==
  {[threw |-> TRUE, message |-> NoSourceMessage, value |-> <<>>]}
  \cup {[threw |-> FALSE, message |-> "", value |-> t] :
          t \in {<<>>, <<"Hello", " ", "world">>}}

\* the outer catch of processVideo
ServerError(message) == Reply(500, [error |-> message])

\* getTranscriptSettles with the error swallowed: generation goes on with
\* an empty transcript
getTranscriptSettlesSwallows(c, out) ==
  /\ req[c].state = "transcript"
  /\ req' = [req EXCEPT ![c].state = "generate",
                        ![c].transcript = out.value]
  /\ UNCHANGED <<call, files, store, resp>>

getTranscriptSettles(c, out) ==
  /\ req[c].state = "transcript"
  /\ IF out.threw
       THEN /\ req' = [req EXCEPT ![c].state = "done"]
            /\ resp' = [resp EXCEPT ![c] = @ \o <<ServerError(out.message)>>]
       ELSE /\ req' = [req EXCEPT ![c].state = "generate",
                                  ![c].transcript = out.value]
            /\ resp' = resp
  /\ UNCHANGED <<call, files, store>>

\* what await generateLearningContent(transcript) yields: the model's
\* summary, the transcript itself (no Groq client), or an error
GenerateOutcomes(transcript) ==
  {[threw |-> TRUE, message |-> "generation failed", summary |-> <<>>]}
  \cup {[threw |-> FALSE, message |-> "", summary |-> t] :
          t \in {<<"a summary">>, transcript}}

generateSettles(c, out) ==
  /\ req[c].state = "generate"
  /\ IF out.threw
       THEN /\ req' = [req EXCEPT ![c].state = "done"]
            /\ resp' = [resp EXCEPT ![c] = @ \o <<ServerError(out.message)>>]
       ELSE /\ req' = [req EXCEPT ![c].state = "save",
                                  ![c].summary = out.summary]
            /\ resp' = resp
  /\ UNCHANGED <<call, files, store>>

\* videoObj
VideoObj(r) ==
  [youtubeUrl |-> r.youtubeUrl.chars, videoId |-> r.videoId.chars,
   transcript |-> r.transcript, summary |-> r.summary]

\* new Video(videoObj): the document request c would save
Document(c, obj) ==
  [youtubeUrl |-> obj.youtubeUrl, videoId |-> obj.videoId,
   transcript |-> obj.transcript, summary |-> obj.summary, oid |-> c]

\* the schema's required strings
Valid(obj) == obj.transcript # <<>> /\ obj.summary # <<>>

\* await video.save(): stores, or throws (validation, no connection)
SaveOutcomes == {[ok |-> TRUE], [ok |-> FALSE]}

\* a save stage whose catch block lacks its return: the fallback
\* res.json(videoObj) after it answers again
SaveSettlesFallsThrough(c, r, docs, out) ==
  IF out.ok
    THEN [docs |-> docs \cup {Document(c, VideoObj(r))},
          reply |-> <<Reply(200, Document(c, VideoObj(r)))>>]
    ELSE [docs |-> docs,
          reply |-> <<Reply(200, VideoObj(r)), Reply(200, VideoObj(r))>>]

\* the save stage: a throwing save answers with videoObj itself
SaveSettles(c, r, docs, out) ==
  IF out.ok
    THEN [docs |-> docs \cup {Document(c, VideoObj(r))},
          reply |-> <<Reply(200, Document(c, VideoObj(r)))>>]
    ELSE [docs |-> docs, reply |-> <<Reply(200, VideoObj(r))>>]

saveSettles(c, out) ==
  /\ req[c].state = "save"
  /\ out.ok => Valid(VideoObj(req[c]))
  /\ LET n == SaveSettles(c, req[c], store, out)
     IN /\ req' = [req EXCEPT ![c].state = "done"]
        /\ store' = n.docs
        /\ resp' = [resp EXCEPT ![c] = @ \o n.reply]
  /\ UNCHANGED <<call, files>>

InitPipeline == InitServer

NextPipeline ==
  \E c \in Calls :
    \/ \E body \in Bodies : processVideoWith(c, body, FALSE)
    \/ \E out \in CacheOutcomes : cacheReadSettles(c, out)
    \/ \E out \in TranscriptOutcomes : getTranscriptSettles(c, out)
    \/ \E out \in GenerateOutcomes(req[c].transcript) : generateSettles(c, out)
    \/ \E out \in SaveOutcomes : saveSettles(c, out)

SpecPipeline == InitPipeline /\ [][NextPipeline]_vars

(***************************************************************************)
(* Properties of the stages behind the demo branch.                        *)
(***************************************************************************)
\* C12: a cache read that throws is a cache miss (the request goes on to
\* getTranscript, nothing is sent); a save that throws is answered 200 with
\* videoObj itself and stores nothing; and neither stage ever sends an
\* error response.
C12_PersistenceFailuresRecovered ==
  [][\A c \in Calls :
       /\ cacheReadSettles(c, [threw |-> TRUE]) =>
            req'[c].state = "transcript" /\ resp'[c] = resp[c]
       /\ saveSettles(c, [ok |-> FALSE]) =>
            /\ resp'[c] = resp[c] \o <<Reply(200, VideoObj(req[c]))>>
            /\ store' = store
       /\ (\/ \E out \in CacheOutcomes : cacheReadSettles(c, out)
           \/ \E out \in SaveOutcomes : saveSettles(c, out)) =>
            \A n \in 1..Len(resp'[c]) : resp'[c][n].status = 200]_vars

\* one request went on to getTranscript although the store held its video
\* from the start (its read threw); another was answered with a videoObj
\* that is not in the store (its save threw)
C12_Witness ==
  \E c, d \in Calls :
    /\ req[c].state = "transcript"
    /\ \E doc \in store :
         doc.oid = "earlier" /\ doc.videoId = req[c].videoId.chars
    /\ req[d].state = "done"
    /\ req[d].videoId # Null
    /\ resp[d] = <<Reply(200, VideoObj(req[d]))>>
    /\ \A doc \in store : doc.videoId # req[d].videoId.chars

(***************************************************************************)
(* Properties of the errors getTranscript reports.                         *)
(***************************************************************************)
\* the errors transcribeAudio rejects with
AudioCauses ==
  {"yt-dlp failed", "Audio file not created after yt-dlp run",
   "whisper failed", "SyntaxError", "TypeError", "whisper error"}

\* C13 as stated: the error of a call that failed in all four methods
\* carries the cause the audio fallback failed with.
C13_ReportsLastCause ==
  \A c \in Calls :
    call[c].pc = "threw" => call[c].result.message = call[c].logged

\* C13 as the code has it: a failure of methods 1 to 3 is never what the
\* call throws (a call throws only once the audio fallback has failed),
\* and what it throws then is the one fixed error, while the cause the
\* audio fallback failed with is logged and not part of that error.
C13_ReportsFixedError ==
  \A c \in Calls :
    /\ call[c].result.kind = "throw" =>
         /\ call[c].pc = "threw"
         /\ call[c].outcome[4] = "fail"
         /\ call[c].logged \in AudioCauses
         /\ call[c].result.message = NoSourceMessage
         /\ call[c].result.message # call[c].logged
    /\ (call[c].outcome[4] = "none"
        /\ \E m \in 1..3 : call[c].outcome[m] = "fail") =>
         call[c].result.kind # "throw"

\* two calls have thrown, their audio fallbacks failing for different
\* causes
C13_Witness ==
  \E c, d \in Calls :
    /\ call[c].pc = "threw" /\ call[d].pc = "threw"
    /\ call[c].logged = "yt-dlp failed"
    /\ call[d].logged = "whisper error"
    /\ call[c].result = call[d].result

(***************************************************************************)
(* extractVideoId on its own: the inputs it is applied to.                 *)
(***************************************************************************)
EmbedPrefix ==
  <<"h", "t", "t", "p", "s", ":", "/", "/", "w", "w", "w", ".", "y", "o",
    "u", "t", "u", "b", "e", ".", "c", "o", "m", "/", "e", "m", "b", "e",
    "d", "/">>
FeaturePrefix ==
  <<"h", "t", "t", "p", "s", ":", "/", "/", "w", "w", "w", ".", "y", "o",
    "u", "t", "u", "b", "e", ".", "c", "o", "m", "/", "w", "a", "t", "c",
    "h", "?", "f", "e", "a", "t", "u", "r", "e", "=", "s", "h", "a", "r",
    "e", "&", "v", "=">>
OtherSitePrefix ==
  <<"h", "t", "t", "p", "s", ":", "/", "/", "e", "x", "a", "m", "p", "l",
    "e", ".", "c", "o", "m", "/">>
TimeSuffix ==
  <<"?", "t", "=", "1", "0">>

IdDashes == [i \in 1..IdLen |-> "-"]
IdEmbed ==
  <<"e", "m", "b", "e", "d", "_", "e", "m", "b", "e", "d">>
\* identifiers: two real ones, one of hyphens only, one spelling a word of
\* the patterns
SampleIds == VideoIds \cup {IdDashes, IdEmbed}

\* a URL with a v= query parameter
QueryForms(id) ==
  {WatchPrefix \o id, WatchPrefix \o id \o TimeSuffix, FeaturePrefix \o id}
\* a youtu.be short link
ShortForms(id) == {ShortPrefix \o id, ShortPrefix \o id \o TimeSuffix}
\* a youtube.com/embed path
EmbedForms(id) == {EmbedPrefix \o id, EmbedPrefix \o id \o TimeSuffix}
\* the bare identifier, also with surrounding whitespace
BareForms(id) ==
  {id, <<" ">> \o id, id \o <<"\n">>, <<" ", "\t">> \o id \o <<"\r", "\n">>}

Forms(id) ==
  QueryForms(id) \cup ShortForms(id) \cup EmbedForms(id) \cup BareForms(id)

\* strings of identifier characters of a wrong length
WrongLengthTokens ==
  {<<"a">>, SubSeq(IdRick, 1, IdLen - 1), IdRick \o <<"Q">>, IdTest \o IdTest}

\* strings in which no pattern is to be recognised
PatternlessInputs ==
  {<<>>, <<" ">>, NotAUrl, OtherSitePrefix \o IdRick,
   SubSeq(IdRick, 1, 5) \o <<" ">> \o SubSeq(IdRick, 7, IdLen),
   SubSeq(IdRick, 1, IdLen - 1) \o <<"!">>,
   SubSeq(ShortPrefix, 1, Len(ShortPrefix) - 1)}

\* URLs whose identifier part is too short, too long, or cut by another
\* character
OddUrls ==
  {WatchPrefix \o SubSeq(IdRick, 1, IdLen - 1),
   WatchPrefix \o IdRick \o <<"Q">>,
   ShortPrefix \o SubSeq(IdRick, 1, 5) \o <<"/">> \o SubSeq(IdRick, 6, IdLen),
   EmbedPrefix \o IdTest \o IdTest}

ExtractInputs ==
  UNION {Forms(id) : id \in SampleIds}
  \cup WrongLengthTokens \cup PatternlessInputs \cup OddUrls

\* a caller applies extractVideoId to a string
extractVideoIdCall(c, input) ==
  /\ req[c].state = "none"
  /\ req' = [req EXCEPT ![c] = [@ EXCEPT !.state = "extracted",
                                         !.youtubeUrl = Str(input),
                                         !.videoId = extractVideoId(input)]]
  /\ UNCHANGED <<call, files, store, resp>>

InitExtract == Init

NextExtract ==
  \E c \in Calls : \E input \in ExtractInputs : extractVideoIdCall(c, input)

SpecExtract == InitExtract /\ [][NextExtract]_vars

(***************************************************************************)
(* Properties of extractVideoId.                                           *)
(***************************************************************************)
\* the string a caller applied extractVideoId to
InputOf(c) == req[c].youtubeUrl.chars

\* C14: for each identifier, extractVideoId returns that identifier from a
\* URL with a v= query parameter, from a youtu.be short link, from a
\* youtube.com/embed path, and from the bare identifier with or without
\* whitespace around it.
C14_ExtractsIdentifier ==
  \A c \in Calls :
    req[c].state = "extracted" =>
      \A id \in SampleIds :
        InputOf(c) \in Forms(id) => req[c].videoId = Str(id)

\* one caller extracted from an embed path, the other from a bare
\* identifier wrapped in whitespace
C14_Witness ==
  \E c, d \in Calls : \E id \in SampleIds :
    /\ req[c].state = "extracted" /\ InputOf(c) = EmbedPrefix \o id
    /\ req[d].state = "extracted"
    /\ InputOf(d) = <<" ", "\t">> \o id \o <<"\r", "\n">>
    /\ req[c].videoId = Str(id) /\ req[d].videoId = Str(id)

\* a string of identifier characters
Token(s) == s # <<>> /\ \A i \in 1..Len(s) : s[i] \in IdChar

\* lit occurs in s
Contains(s, lit) == \E i \in 1..Len(s) : LitAt(s, i, lit)

\* the empty string, a token of a wrong length, or a string that holds
\* none of "v=", "youtu.be/", "youtube.com/embed/" and is no identifier
\* even when trimmed
Malformed(s) ==
  \/ s = <<>>
  \/ Token(s) /\ Len(s) # IdLen
  \/ /\ \A lit \in {LitV, LitYoutuBe, LitEmbed} : ~Contains(s, lit)
     /\ ~(Token(Trim(s)) /\ Len(Trim(s)) = IdLen)

\* C15: extractVideoId returns null (and so does not throw) for every
\* malformed string, and whatever it returns that is not null is a string
\* of exactly 11 identifier characters.
C15_MalformedIsNull ==
  \A c \in Calls :
    req[c].state = "extracted" =>
      /\ Malformed(InputOf(c)) => req[c].videoId = Null
      /\ req[c].videoId # Null =>
           /\ req[c].videoId.type = "string"
           /\ Len(req[c].videoId.chars) = 11
           /\ \A i \in 1..11 : req[c].videoId.chars[i] \in IdChar

\* one caller got null for a token of 12 characters, the other the first
\* 11 characters of an over-long v= parameter
C15_Witness ==
  \E c, d \in Calls :
    /\ req[c].state = "extracted" /\ InputOf(c) = IdRick \o <<"Q">>
    /\ req[c].videoId = Null
    /\ req[d].state = "extracted"
    /\ InputOf(d) = WatchPrefix \o IdRick \o <<"Q">>
    /\ req[d].videoId = Str(IdRick)

(***************************************************************************)
(* Properties of the temporary file shared by calls on one identifier.     *)
(***************************************************************************)
\* call d has downloaded its audio and waits for the transcription script
Transcribing(d) == call[d].pc = "m4_whisper"

\* this step is one of call c's three cleanups of the temporary path
StaleCleanup(c) ==
  call[c].pc \in {"m3_page", "m3_caption"} /\ call'[c].pc = "m4_download"
DownloadFailureCleanup(c) ==
  call[c].pc = "m4_download" /\ call'[c].ta = "rejected"
PostTranscriptionCleanup(c) ==
  call[c].pc = "m4_whisper" /\ call'[c].ta \in {"resolved", "rejected"}

\* C16: calls on one identifier share one temporary path and nothing keeps
\* one from deleting the file another is transcribing: whenever the file
\* of a transcribing call disappears in a step that is not its own, the
\* step is the stale-file cleanup, the download-failure cleanup or the
\* post-transcription cleanup of another call on the same identifier (and
\* such a step is reachable, see the witness).
C16_SharedPathDeletion ==
  [][\A d \in Calls :
       (/\ Transcribing(d)
        /\ call'[d] = call[d]
        /\ call[d].videoId \in files
        /\ call[d].videoId \notin files') =>
         \E c \in Calls \ {d} :
           /\ call[c].videoId = call[d].videoId
           /\ \/ StaleCleanup(c)
              \/ DownloadFailureCleanup(c)
              \/ PostTranscriptionCleanup(c)]_vars

\* call d is still transcribing, and the file it downloaded is gone: call
\* c on the same identifier has finished its own transcription and
\* unlinked it
C16_Witness ==
  \E c, d \in Calls :
    /\ c # d /\ call[c].videoId = call[d].videoId
    /\ Transcribing(d)
    /\ call[d].videoId \notin files
    /\ call[c].ta = "resolved"

(***************************************************************************)
(* Termination of getTranscript.  Every external call, once made, ends and *)
(* has its callback run (or its awaited promise settled): weak fairness of *)
(* each settling step of each call.  Nothing is assumed of the download    *)
(* tool writing its file, nor of new calls being made.                     *)
(***************************************************************************)
ExternalCallsComplete ==
  \A c \in Calls :
    /\ WF_vars(\E out \in LibOutcomes : fetchTranscriptSettles(c, out))
    /\ WF_vars(\E out \in PyOutcomes : venvPythonCallback(c, out))
    /\ WF_vars(\E out \in PyOutcomes : globalPythonCallback(c, out))
    /\ WF_vars(\E out \in PageOutcomes : pageFetchSettles(c, out))
    /\ WF_vars(\E out \in CaptionOutcomes : captionFetchSettles(c, out))
    /\ WF_vars(\E out \in DownloadOutcomes : ytDlpCallback(c, out))
    /\ WF_vars(\E out \in WhisperOutcomes : whisperCallback(c, out))

SpecFair == Init /\ [][Next]_vars /\ ExternalCallsComplete

\* C17: if every external call completes, every getTranscript call that
\* was made ends, returning or throwing.
C17_EveryCallEnds ==
  \A c \in Calls : Active(c) ~> Ended(c)

\* one call ended after the nested callbacks of method 2 (both
\* interpreters) and of transcribeAudio (download, then script), the other
\* ended inside method 2
C17_Witness ==
  \E c, d \in Calls :
    /\ Ended(c)
    /\ {"python3", "whisper"} \subseteq Range(call[c].started)
    /\ call[d].pc = "returned" /\ call[d].outcome[2] = "ok"

(***************************************************************************)
(* Properties of the single methods.                                       *)
(***************************************************************************)
\* how often call c has started collaborator x
TimesStarted(k, x) ==
  Cardinality({i \in 1..Len(k.started) : k.started[i] = x})

\* C18: in the step that ends the venv interpreter, python3 is started if
\* and only if the interpreter ended with an error; a venv interpreter that
\* exits 0 with unparseable output or success=false fails method 2 there
\* and then, python3 not tried; when python3 ends with an error too,
\* method 2 fails and the error caught is the venv interpreter's; and no
\* call starts either interpreter twice.
C18_InnerFallback ==
  [][\A c \in Calls :
       /\ \A out \in PyOutcomes :
            venvPythonCallback(c, out) =>
              /\ out.error <=> call'[c].pc = "m2_global"
              /\ out.error <=> TimesStarted(call'[c], "python3") = 1
              /\ (~out.error /\ (~out.stdout.json \/ ~out.stdout.success)) =>
                   /\ call'[c].outcome[2] = "fail"
                   /\ call'[c].pc = "m3_page"
       /\ \A out \in PyOutcomes :
            globalPythonCallback(c, out) /\ out.error =>
              /\ call'[c].outcome[2] = "fail"
              /\ call'[c].logged = call[c].primary
              /\ call[c].primary \in {"spawn failed", "exit 1"}
              /\ call'[c].pc = "m3_page"
       /\ TimesStarted(call'[c], "venv python") <= 1
       /\ TimesStarted(call'[c], "python3") <= 1]_vars

\* one call had both interpreters end with an error and goes on with
\* method 3, the other had the venv interpreter print success=false and
\* goes on with method 3 without python3
C18_Witness ==
  \E c, d \in Calls :
    /\ call[c].pc = "m3_page"
    /\ TimesStarted(call[c], "python3") = 1
    /\ call[c].logged = "spawn failed"
    /\ call[d].pc = "m3_page"
    /\ TimesStarted(call[d], "python3") = 0
    /\ call[d].logged = "script error"

\* an event that has segments
HasSegs(e) == e.segs # Undefined /\ Len(e.segs.items) > 0

\* C19: method 3 succeeds only on a payload with at least one event that
\* has segments (else it counts as failed and the audio fallback is
\* started), and the caption url is fetched only after a caption track was
\* found in the page.
C19_SuccessNeedsSegments ==
  \A c \in Calls :
    /\ call[c].outcome[3] = "ok" =>
         \E i \in 1..Len(call[c].emitted.items) :
           HasSegs(call[c].emitted.items[i])
    /\ call[c].outcome[3] = "fail" =>
         TimesStarted(call[c], "yt-dlp") = 1
    /\ TimesStarted(call[c], "caption fetch") <= TimesStarted(call[c], "page fetch")

\* C20: when the library fetch resolves to no item list or to an empty
\* one, method 1 has failed: the call does not return in that step and
\* starts method 2.
C20_EmptyListFails ==
  [][\A c \in Calls : \A out \in LibOutcomes :
       (/\ fetchTranscriptSettles(c, out)
        /\ ~out.threw
        /\ (out.value = Null \/ out.value = List(<<>>))) =>
         /\ call'[c].outcome[1] = "fail"
         /\ call'[c].result.kind = "none"
         /\ call'[c].pc = "m2_venv"
         /\ call'[c].started = <<"fetchTranscript", "venv python">>]_vars

\* a call waits for the venv interpreter after the library fetch resolved
\* (nothing was caught) to no usable list
C20_Witness ==
  \E c \in Calls :
    /\ call[c].pc = "m2_venv"
    /\ call[c].outcome[1] = "fail"
    /\ call[c].logged = ""

\* call c enters transcribeAudio in this step
EntersAudio(c) == call[c].pc # "m4_download" /\ call'[c].pc = "m4_download"

\* C21: the step in which a call enters transcribeAudio and starts the
\* download tool leaves no file at the call's path, whatever was there;
\* from then on a file appears at a path only by a download tool, started
\* by a call on that identifier and still running, writing it.  So with no
\* other call on the identifier, the file the check after the download
\* finds was written during this call.
C21_StaleRemovedFirst ==
  [][/\ \A c \in Calls :
          EntersAudio(c) =>
            /\ call'[c].videoId \notin files'
            /\ call'[c].stale <=> call[c].videoId \in files
            /\ TimesStarted(call[c], "yt-dlp") = 0
            /\ TimesStarted(call'[c], "yt-dlp") = 1
     /\ \A id \in VideoIds :
          (id \notin files /\ id \in files') =>
            /\ call' = call
            /\ \E d \in Calls :
                 call[d].pc = "m4_download" /\ call[d].videoId = id]_vars

\* a call that found and unlinked a stale file has passed the check after
\* its download, the file being there again, and no other call was made
C21_Witness ==
  \E c, d \in Calls :
    /\ c # d /\ call[d].pc = "idle"
    /\ call[c].pc = "m4_whisper"
    /\ call[c].stale
    /\ call[c].videoId \in files

(***************************************************************************)
(* Properties of the demo branch.                                          *)
(***************************************************************************)
\* the stages of processVideo behind the demo branch
PipelineStates == {"cacheCheck", "transcript", "generate", "save"}

StageOrder ==
  {<<"none", "done">>, <<"none", "cacheCheck">>,
   <<"cacheCheck", "done">>, <<"cacheCheck", "transcript">>,
   <<"transcript", "done">>, <<"transcript", "generate">>,
   <<"generate", "done">>, <<"generate", "save">>,
   <<"save", "done">>}

\* C23: a request moves through cache check, getTranscript, generation and
\* save in that order; the store changes only in the step that ends the
\* save of a request, which adds the document made of that request's
\* transcript and summary; and when getTranscript or the generation throws,
\* the store is unchanged and the request is answered 500, once.
C23_SaveAfterBothSucceed ==
  [][\A c \in Calls :
       /\ req'[c].state # req[c].state =>
            <<req[c].state, req'[c].state>> \in StageOrder
       /\ store' # store =>
            \E d \in Calls :
              /\ req[d].state = "save" /\ req'[d].state = "done"
              /\ store' = store \cup {Document(d, VideoObj(req[d]))}
       /\ \A out \in TranscriptOutcomes :
            getTranscriptSettles(c, out) /\ out.threw =>
              /\ store' = store
              /\ req'[c].state = "done"
              /\ resp'[c] = <<Reply(500, [error |-> NoSourceMessage])>>
       /\ \A out \in GenerateOutcomes(req[c].transcript) :
            generateSettles(c, out) /\ out.threw =>
              /\ store' = store
              /\ req'[c].state = "done"
              /\ resp'[c] = <<Reply(500, [error |-> out.message])>>]_vars

\* one request saved its document, the other's getTranscript threw: it was
\* answered 500 and the store holds nothing of it
C23_Witness ==
  \E c, d \in Calls :
    /\ Identified(c) /\ req[c].state = "done"
    /\ Document(c, VideoObj(req[c])) \in store
    /\ resp[c] = <<Reply(200, Document(c, VideoObj(req[c])))>>
    /\ req[d].state = "done"
    /\ resp[d] = <<Reply(500, [error |-> NoSourceMessage])>>
    /\ \A doc \in store : doc.oid # d

(***************************************************************************)
(* Properties of the temporary files of calls on different identifiers.    *)
(***************************************************************************)
TempBase == <<".", ".", "/", "t", "e", "m", "p", "_">>
Mp3Ext == <<".", "m", "p", "3">>

\* expectedAudioFile: `${tempBasePath}.mp3`, tempBasePath being
\* ../temp_${videoId}
expectedAudioFile(videoId) == TempBase \o videoId \o Mp3Ext

\* this step is one of a call on identifier id, or of the download tool
\* such a call started
StepOn(id) ==
  \E c \in Calls :
    /\ call[c].videoId = id \/ call'[c].videoId = id
    /\ \/ call'[c] # call[c]
       \/ call[c].pc = "m4_download" /\ call' = call

\* C24: the temporary path is made of the identifier alone and distinct
\* identifiers have distinct paths; under every interleaving the file of
\* an identifier is created or deleted only by a step of a call on that
\* identifier (or of the download tool it started), and a step of a call
\* on another identifier leaves it as it is.
C24_NoInterferenceAcrossIds ==
  [][/\ \A a, b \in SampleIds :
          a # b => expectedAudioFile(a) # expectedAudioFile(b)
     /\ \A id \in VideoIds :
          (id \in files) # (id \in files') => StepOn(id)
     /\ \A c \in Calls : \A id \in VideoIds :
          (call'[c] # call[c] /\ call[c].videoId # id
           /\ call'[c].videoId # id) =>
            (id \in files') = (id \in files)]_vars

\* two calls on different identifiers: one has been through
\* transcribeAudio, cleanups included, while the other's downloaded file
\* is still there for its transcription
C24_Witness ==
  \E c, d \in Calls :
    /\ call[c].videoId # call[d].videoId
    /\ call[c].ta \in {"resolved", "rejected"}
    /\ call[d].pc = "m4_whisper"
    /\ call[d].videoId \in files

(***************************************************************************)
(* Every path of processVideo: the handler with its demo branch taken, as  *)
(* built, and not taken.                                                   *)
(***************************************************************************)
InitHandler == InitServer

NextHandler ==
  \E c \in Calls :
    \/ \E body \in Bodies : \E demo \in {DEMO_MODE, FALSE} :
         processVideoWith(c, body, demo)
    \/ \E out \in CacheOutcomes : cacheReadSettles(c, out)
    \/ \E out \in TranscriptOutcomes : getTranscriptSettles(c, out)
    \/ \E out \in GenerateOutcomes(req[c].transcript) : generateSettles(c, out)
    \/ \E out \in SaveOutcomes : saveSettles(c, out)

SpecHandler == InitHandler /\ [][NextHandler]_vars

\* C25: a request that was handled to its end has been sent exactly one
\* response, whatever path it took, and a request not yet at its end none.
C25_ExactlyOneResponse ==
  \A c \in Calls :
    Len(resp[c]) = IF req[c].state = "done" THEN 1 ELSE 0

\* one request was answered with the videoObj its save could not store,
\* the other with the demo content
C25_Witness ==
  \E c, d \in Calls :
    /\ Identified(c) /\ req[c].state = "done"
    /\ resp[c] = <<Reply(200, VideoObj(req[c]))>>
    /\ Identified(d) /\ req[d].state = "done"
    /\ resp[d] = <<Reply(200, DemoContent(req[d].youtubeUrl.chars,
                                          req[d].videoId.chars))>>

(***************************************************************************)
(* The processTranscript handler: a transcript handed in directly.         *)
(***************************************************************************)
\* the least length of a trimmed transcript
MinTranscriptLen == 50

\* n times the character ch
Repeat(ch, n) == [i \in 1..n |-> ch]

\* req.body.transcript: missing, null, a number, the empty string, blanks
\* only, and texts around the least length, with and without blanks around
TranscriptInputs ==
  {Undefined, Null, [type |-> "number"], Str(<<>>),
   Str(Repeat(" ", MinTranscriptLen + 1)),
   Str(<<"H", "i">>),
   Str(Repeat("a", MinTranscriptLen - 1)),
   Str(Repeat(" ", 3) \o Repeat("a", MinTranscriptLen - 1) \o <<"\n", "\n">>),
   Str(Repeat("a", MinTranscriptLen)),
   Str(<<" ">> \o Repeat("a", MinTranscriptLen) \o <<" ">>),
   Str(Repeat("a", MinTranscriptLen + 1))}

\* req.body.title
TitleInputs == {Undefined, Str(<<"A", " ", "t", "i", "t", "l", "e">>)}

\* the length test on the text as sent, not trimmed
TooShortUntrimmed(t) == Len(t.chars) < MinTranscriptLen

\* transcript.trim().length < 50
TooShort(t) == Len(Trim(t.chars)) < MinTranscriptLen

ShortTranscriptMessage ==
  "Please provide a transcript with at least 50 characters"

\* title || 'Direct Transcript'
TitleOf(title) ==
  IF Falsy(title) THEN <<"Direct Transcript">> ELSE title.chars

\* processTranscript up to its first response or await; a transcript that
\* is no string has no trim, which the outer handler catches
ProcessTranscriptEntry(transcript) ==
  IF Falsy(transcript)
    THEN [state |-> "done",
          reply |-> <<Reply(400, [error |-> ShortTranscriptMessage])>>]
  ELSE IF transcript.type # "string"
    THEN [state |-> "done", reply |-> <<ServerError("TypeError")>>]
  ELSE IF TooShort(transcript)
    THEN [state |-> "done",
          reply |-> <<Reply(400, [error |-> ShortTranscriptMessage])>>]
  ELSE [state |-> "generateDirect", reply |-> <<>>]

processTranscript(c, transcript, title) ==
  /\ req[c].state = "none"
  /\ LET n == ProcessTranscriptEntry(transcript)
     IN /\ req' = [req EXCEPT ![c] = [@ EXCEPT !.state = n.state,
                                               !.transcript = transcript,
                                               !.title = title]]
        /\ resp' = [resp EXCEPT ![c] = @ \o n.reply]
  /\ UNCHANGED <<call, files, store>>

\* result
DirectResult(r, summary) ==
  [title |-> TitleOf(r.title), transcript |-> r.transcript.chars,
   summary |-> summary]

\* await generateLearningContent(transcript) settles: res.json(result), or
\* the outer catch
generateDirectSettles(c, out) ==
  /\ req[c].state = "generateDirect"
  /\ req' = [req EXCEPT ![c].state = "done"]
  /\ resp' = [resp EXCEPT ![c] = @ \o
                <<IF out.threw THEN ServerError(out.message)
                  ELSE Reply(200, DirectResult(req[c], out.summary))>>]
  /\ UNCHANGED <<call, files, store>>

InitTranscript == InitServer

NextTranscript ==
  \E c \in Calls :
    \/ \E transcript \in TranscriptInputs : \E title \in TitleInputs :
         processTranscript(c, transcript, title)
    \/ \E out \in GenerateOutcomes(IF req[c].state = "generateDirect"
                                     THEN req[c].transcript.chars
                                     ELSE <<>>) :
         generateDirectSettles(c, out)

SpecTranscript == InitTranscript /\ [][NextTranscript]_vars

\* the transcript is missing (absent, null or empty)
NoTranscript(t) ==
  t.type \in {"undefined", "null"} \/ (t.type = "string" /\ t.chars = <<>>)

\* C26: a request whose transcript is missing, or is a string of fewer
\* than 50 characters once trimmed, is answered 400 in the step that
\* receives it, generateLearningContent not being called; and no step of
\* processTranscript changes the store or puts a request at the cache
\* check or at the save.
C26_ShortTranscriptRejected ==
  [][\A c \in Calls :
       /\ \A transcript \in TranscriptInputs : \A title \in TitleInputs :
            (/\ processTranscript(c, transcript, title)
             /\ \/ NoTranscript(transcript)
                \/ /\ transcript.type = "string"
                   /\ Len(Trim(transcript.chars)) < 50) =>
              /\ resp'[c] = <<Reply(400, [error |-> ShortTranscriptMessage])>>
              /\ req'[c].state = "done"
       /\ req'[c].state \notin PipelineStates
       /\ store' = store]_vars

\* a text of 49 characters with blanks around it, 54 in all, was rejected;
\* one of 50 with blanks around it was answered with its result
C26_Witness ==
  \E c, d \in Calls :
    /\ req[c].state = "done"
    /\ req[c].transcript =
         Str(Repeat(" ", 3) \o Repeat("a", MinTranscriptLen - 1)
             \o <<"\n", "\n">>)
    /\ resp[c][1].status = 400
    /\ req[d].state = "done"
    /\ req[d].transcript = Str(<<" ">> \o Repeat("a", MinTranscriptLen) \o <<" ">>)
    /\ resp[d][1].status = 200

====
